---- MODULE Spec2Model ----
(***************************************************************************)
(* Perturb-and-Observe MPPT controller (class MPPT_PO of mppt_po.py).      *)
(*                                                                         *)
(* Numbers are fixed-point integers: voltages in units of 0.5 V, currents  *)
(* in units of 0.1 A, powers (voltage * current) in units of 0.05 W and    *)
(* sample times in units of 0.1 s.  So 10 V = 20, 10.5 V = 21, 11 V = 22,  *)
(* 45 V = 90, 0.4 A = 4, 0.5 A = 5, 4.4 W = 88, 5.25 W = 105.              *)
(* The IEEE-754 values +inf, -inf and nan are the integers PosInf, NegInf  *)
(* and NaN, which lie outside the range of every finite value that occurs. *)
(***************************************************************************)
EXTENDS Integers, Sequences, FiniteSets, TLC

VARIABLES step_size, max_voltage, min_voltage, sample_time,
          v_prev, p_prev, v_ref, history,
          args, returns,
          twin, thr, sim

config == <<step_size, max_voltage, min_voltage, sample_time>>
vars == <<step_size, max_voltage, min_voltage, sample_time,
          v_prev, p_prev, v_ref, history, args, returns, twin, thr, sim>>

\* Number of update calls explored.
MaxCalls == 4

\* Arguments a caller may pass to the constructor; the constructor takes
\* whatever it is given (no validation), so invalid ones are included.
\* The first one is the configuration of the __main__ block.
Configs ==
  { [step_size |->  1, max_voltage |-> 90, min_voltage |-> 20, sample_time |-> 2],
    [step_size |->  1, max_voltage |-> 22, min_voltage |-> 20, sample_time |-> 2],
    [step_size |->  3, max_voltage |-> 22, min_voltage |-> 20, sample_time |-> 1],
    [step_size |->  0, max_voltage |-> 22, min_voltage |-> 20, sample_time |-> 2],
    [step_size |-> -1, max_voltage |-> 22, min_voltage |-> 20, sample_time |-> 2],
    [step_size |->  1, max_voltage |-> 20, min_voltage |-> 22, sample_time |-> 2],
    [step_size |->  1, max_voltage |-> 20, min_voltage |-> 20, sample_time |-> 2],
    [step_size |->  1, max_voltage |-> 22, min_voltage |-> 20, sample_time |-> 0] }

\* Measurements a caller may pass to update.
Voltages == {20, 21, 22}
Currents == {0, 4, 5}

Actions == {"init", "increase", "decrease"}

----------------------------------------------------------------------------
\* Python float arithmetic on the values update can meet.
PosInf == 1000000
NegInf == -1000000
NaN == 2000000

IsNaN(x) == x = NaN
IsInf(x) == x = PosInf \/ x = NegInf
Sign(x) == IF x > 0 THEN 1 ELSE IF x < 0 THEN -1 ELSE 0

\* a * b : nan propagates, inf * 0 is nan, inf * x keeps the sign product.
fmul(a, b) ==
  IF IsNaN(a) \/ IsNaN(b) THEN NaN
  ELSE IF IsInf(a) \/ IsInf(b)
         THEN IF a = 0 \/ b = 0 THEN NaN
              ELSE IF Sign(a) * Sign(b) > 0 THEN PosInf ELSE NegInf
         ELSE a * b

\* a - b : nan propagates, inf - inf is nan.
fsub(a, b) ==
  IF IsNaN(a) \/ IsNaN(b) THEN NaN
  ELSE IF IsInf(a) THEN (IF b = a THEN NaN ELSE a)
  ELSE IF IsInf(b) THEN (IF b = PosInf THEN NegInf ELSE PosInf)
  ELSE a - b

\* a > b : false as soon as one side is nan.
fgt(a, b) == ~IsNaN(a) /\ ~IsNaN(b) /\ a > b

Min2(a, b) == IF a < b THEN a ELSE b
Max2(a, b) == IF a > b THEN a ELSE b

\* A clip that forgets the upper bound.
clip_NoUpper(x, lo, hi) == Max2(x, lo)

\* A clip that forgets the lower bound.
clip_NoLower(x, lo, hi) == Min2(x, hi)

\* A clip that wraps to the opposite bound instead of saturating.
clip_Wrap(x, lo, hi) == IF x > hi THEN lo ELSE IF x < lo THEN hi ELSE x

\* np.clip(x, lo, hi) = minimum(maximum(x, lo), hi)
clip(x, lo, hi) == Min2(Max2(x, lo), hi)

\* A first-sample test with the comparison inverted.
FirstSample_Inverted(p) == p # 0

\* A first-sample test that never fires.
FirstSample_Never(p) == FALSE

\* if self.p_prev == 0
FirstSample(p) == p = 0

\* A decision table whose zero-delta ties fall on the '> 0' side.
PO_TiesPositive(delta_p, delta_v) ==
  IF delta_p >= 0
    THEN IF delta_v >= 0 THEN "increase" ELSE "decrease"
    ELSE IF delta_v >= 0 THEN "decrease" ELSE "increase"

\* A decision table that keeps the direction when the power drops with a
\* non-increasing voltage.
PO_NoReverse(delta_p, delta_v) ==
  IF delta_p > 0
    THEN IF delta_v > 0 THEN "increase" ELSE "decrease"
    ELSE "decrease"

\* A decision table that looks at the power change only.
PO_PowerOnly(delta_p, delta_v) ==
  IF delta_p > 0 THEN "increase" ELSE "decrease"

\* The P&O decision table of update.
PO(delta_p, delta_v) ==
  IF fgt(delta_p, 0)
    THEN IF fgt(delta_v, 0) THEN "increase" ELSE "decrease"
    ELSE IF fgt(delta_v, 0) THEN "decrease" ELSE "increase"

\* A perturbation of twice the step.
Perturb_Double(ref, action, step) ==
  IF action = "increase" THEN ref + 2 * step ELSE ref - 2 * step

\* self.v_ref += self.step_size  /  self.v_ref -= self.step_size
Perturb(ref, action, step) ==
  IF action = "increase" THEN ref + step ELSE ref - step

\* A sample log that forgets the current.
AppendSample_NoCurrent(h, v, i, p) ==
  [h EXCEPT !.v = Append(@, v), !.p = Append(@, p)]

\* A sample log that inserts the newest sample at the front.
AppendSample_Front(h, v, i, p) ==
  [h EXCEPT !.v = <<v>> \o @, !.i = <<i>> \o @, !.p = <<p>> \o @]

\* self.history['v'].append(..); ['i'].append(..); ['p'].append(..)
AppendSample(h, v, i, p) ==
  [h EXCEPT !.v = Append(@, v), !.i = Append(@, i), !.p = Append(@, p)]

\* self.history['action'].append(action)
AppendAction(h, a) == [h EXCEPT !.action = Append(@, a)]

----------------------------------------------------------------------------
\* The controller object as a record of its attributes.
self ==
  [step_size |-> step_size, max_voltage |-> max_voltage,
   min_voltage |-> min_voltage, sample_time |-> sample_time,
   v_prev |-> v_prev, p_prev |-> p_prev, v_ref |-> v_ref, history |-> history]

\* MPPT_PO.__init__(step_size, max_voltage, min_voltage, sample_time): the
\* object it leaves behind.
construct(c) ==
  [step_size |-> c.step_size, max_voltage |-> c.max_voltage,
   min_voltage |-> c.min_voltage, sample_time |-> c.sample_time,
   v_prev |-> 0, p_prev |-> 0, v_ref |-> c.min_voltage,
   history |-> [v |-> <<>>, i |-> <<>>, p |-> <<>>, action |-> <<>>]]

\* A first-sample branch that forgets to store the sample's voltage.
first_sample_KeepsVoltage(c, v_measured, p_measured) ==
  [self |-> [c EXCEPT !.p_prev = p_measured,
                      !.history = AppendAction(@, "init")],
   ret |-> c.v_ref]

\* The first-sample branch of update (the body of 'if self.p_prev == 0');
\* c already holds the appended sample.  Yields the object and the value
\* returned.
first_sample(c, v_measured, p_measured) ==
  [self |-> [c EXCEPT !.v_prev = v_measured,
                      !.p_prev = p_measured,
                      !.history = AppendAction(@, "init")],
   ret |-> c.v_ref]

\* A steady-state branch that stores the clipped value in max_voltage too.
steady_state_MovesLimit(c, v_measured, p_measured) ==
  LET delta_v == fsub(v_measured, c.v_prev)
      delta_p == fsub(p_measured, c.p_prev)
      action == PO(delta_p, delta_v)
      new_ref == clip(Perturb(c.v_ref, action, c.step_size),
                      c.min_voltage, c.max_voltage)
  IN  [self |-> [c EXCEPT !.v_ref = new_ref,
                          !.max_voltage = new_ref,
                          !.v_prev = v_measured,
                          !.p_prev = p_measured,
                          !.history = AppendAction(@, action)],
       ret |-> new_ref]

\* The steady-state branch of update; c already holds the appended sample.
steady_state(c, v_measured, p_measured) ==
  LET delta_v == fsub(v_measured, c.v_prev)
      delta_p == fsub(p_measured, c.p_prev)
      action == PO(delta_p, delta_v)
      new_ref == clip(Perturb(c.v_ref, action, c.step_size),
                      c.min_voltage, c.max_voltage)
  IN  [self |-> [c EXCEPT !.v_ref = new_ref,
                          !.v_prev = v_measured,
                          !.p_prev = p_measured,
                          !.history = AppendAction(@, action)],
       ret |-> new_ref]

\* An update that takes an empty action log, not p_prev, as the sign of the
\* first sample.
updated_ReadsHistory(c, v_measured, i_measured) ==
  LET p_measured == fmul(v_measured, i_measured)
      c1 == [c EXCEPT !.history =
                        AppendSample(@, v_measured, i_measured, p_measured)]
  IN  IF Len(c.history.action) = 0
        THEN first_sample(c1, v_measured, p_measured)
        ELSE steady_state(c1, v_measured, p_measured)

\* MPPT_PO.update(v_measured, i_measured) on the object c: the object after
\* the call and the value returned.
updated(c, v_measured, i_measured) ==
  LET p_measured == fmul(v_measured, i_measured)
      c1 == [c EXCEPT !.history =
                        AppendSample(@, v_measured, i_measured, p_measured)]
  IN  IF FirstSample(c.p_prev)
        THEN first_sample(c1, v_measured, p_measured)
        ELSE steady_state(c1, v_measured, p_measured)

\* The object o is the state of the controller.
Holds(o) ==
  /\ step_size = o.step_size
  /\ max_voltage = o.max_voltage
  /\ min_voltage = o.min_voltage
  /\ sample_time = o.sample_time
  /\ v_prev = o.v_prev
  /\ p_prev = o.p_prev
  /\ v_ref = o.v_ref
  /\ history = o.history

\* MPPT_PO.__init__; no update call is recorded yet.
Init ==
  /\ \E c \in Configs :
       /\ Holds(construct(c))
       /\ twin = [self |-> construct(c), returns |-> <<>>]
  /\ args = <<>>
  /\ returns = <<>>
  /\ thr = <<>>
  /\ sim = <<>>

\* One call MPPT_PO.update(v_measured, i_measured) on the controller; args
\* and returns record the arguments and the returned value of every
\* completed call.
update(v_measured, i_measured) ==
  LET r == updated(self, v_measured, i_measured)
  IN  /\ step_size' = r.self.step_size
      /\ max_voltage' = r.self.max_voltage
      /\ min_voltage' = r.self.min_voltage
      /\ sample_time' = r.self.sample_time
      /\ v_prev' = r.self.v_prev
      /\ p_prev' = r.self.p_prev
      /\ v_ref' = r.self.v_ref
      /\ history' = r.self.history
      /\ returns' = Append(returns, r.ret)
      /\ args' = Append(args, <<v_measured, i_measured>>)

\* A caller makes update calls one after the other with any measurements.
Next ==
  \E v \in Voltages, i \in Currents :
    /\ Len(returns) < MaxCalls
    /\ update(v, i)
    /\ UNCHANGED <<twin, thr, sim>>

Spec == Init /\ [][Next]_vars

----------------------------------------------------------------------------
\* Two controllers that differ only in the contents of their history.
\* Histories a controller with v_prev = 0 and p_prev = 0 can have: the ones
\* left by update(0, 0.5) and by update(0, 0.4); update(0, 0).
OtherHistories ==
  { [v |-> <<0>>, i |-> <<5>>, p |-> <<0>>, action |-> <<"init">>],
    [v |-> <<0, 0>>, i |-> <<4, 0>>, p |-> <<0, 0>>,
     action |-> <<"init", "init">>] }

\* MPPT_PO.__init__ twice with the same arguments; the second controller
\* has already logged samples that left v_prev and p_prev at 0.
InitTwin ==
  /\ \E c \in Configs, h \in OtherHistories :
       /\ Holds(construct(c))
       /\ twin = [self |-> [construct(c) EXCEPT !.history = h],
                  returns |-> <<>>]
  /\ args = <<>>
  /\ returns = <<>>
  /\ thr = <<>>
  /\ sim = <<>>

\* The same call MPPT_PO.update(v_measured, i_measured) on the second
\* controller.
update_twin(v_measured, i_measured) ==
  LET r == updated(twin.self, v_measured, i_measured)
  IN  twin' = [self |-> r.self, returns |-> Append(twin.returns, r.ret)]

\* Every measurement is given to both controllers.
NextTwin ==
  \E v \in Voltages, i \in Currents :
    /\ Len(returns) < MaxCalls
    /\ update(v, i)
    /\ update_twin(v, i)
    /\ UNCHANGED <<thr, sim>>

SpecTwin == InitTwin /\ [][NextTwin]_vars

----------------------------------------------------------------------------
\* Anomalous measurements: negative current, nan and inf.
AnomalousVoltages == {21, NaN, PosInf}
AnomalousCurrents == {-4, 5, NaN, PosInf}

\* MPPT_PO.__init__ with a configuration that meets its documented
\* precondition.
InitAnomalous ==
  /\ Init
  /\ step_size > 0
  /\ min_voltage < max_voltage
  /\ sample_time > 0

\* A caller makes update calls with measurements that may be anomalous.
NextAnomalous ==
  \E v \in AnomalousVoltages, i \in AnomalousCurrents :
    /\ Len(returns) < MaxCalls
    /\ update(v, i)
    /\ UNCHANGED <<twin, thr, sim>>

SpecAnomalous == InitAnomalous /\ [][NextAnomalous]_vars

----------------------------------------------------------------------------
\* Two threads call update on the same controller without a lock.  Every
\* source statement of update is one step of its thread; a thread's position
\* is the line number of the statement it executes next.
Threads == {1, 2}

\* Measurements of the calls made in this scenario.
ThreadSamples == { <<22, 4>>, <<21, 5>>, <<20, 0>> }

\* Number of sequential update calls made before the two threads start.
MaxWarmup == 1

\* The locals of a call update(v, i) that has evaluated line 41.
locals(v, i) ==
  [pc |-> "L44", v_measured |-> v, i_measured |-> i,
   p_measured |-> fmul(v, i),
   delta_v |-> 0, delta_p |-> 0, action |-> "", ret |-> 0]

\* A line 49 with its two branches swapped.
branch_L49_Swapped(c) == IF FirstSample(c.p_prev) THEN "L56" ELSE "L50"

\* Line 49: if self.p_prev == 0
branch_L49(c) == IF FirstSample(c.p_prev) THEN "L50" ELSE "L56"

\* The statement at l.pc executed on the object c by a call with locals l:
\* the object and the locals after it.
exec(c, l) ==
  CASE l.pc = "L44" ->
         [c |-> [c EXCEPT !.history.v = Append(@, l.v_measured)],
          l |-> [l EXCEPT !.pc = "L45"]]
    [] l.pc = "L45" ->
         [c |-> [c EXCEPT !.history.i = Append(@, l.i_measured)],
          l |-> [l EXCEPT !.pc = "L46"]]
    [] l.pc = "L46" ->
         [c |-> [c EXCEPT !.history.p = Append(@, l.p_measured)],
          l |-> [l EXCEPT !.pc = "L49"]]
    [] l.pc = "L49" ->
         [c |-> c, l |-> [l EXCEPT !.pc = branch_L49(c)]]
    [] l.pc = "L50" ->
         [c |-> [c EXCEPT !.v_prev = l.v_measured],
          l |-> [l EXCEPT !.pc = "L51"]]
    [] l.pc = "L51" ->
         [c |-> [c EXCEPT !.p_prev = l.p_measured],
          l |-> [l EXCEPT !.pc = "L52"]]
    [] l.pc = "L52" ->
         [c |-> [c EXCEPT !.history = AppendAction(@, "init")],
          l |-> [l EXCEPT !.pc = "L53"]]
    [] l.pc = "L53" ->
         [c |-> c, l |-> [l EXCEPT !.ret = c.v_ref, !.pc = "done"]]
    [] l.pc = "L56" ->
         [c |-> c,
          l |-> [l EXCEPT !.delta_v = fsub(l.v_measured, c.v_prev),
                          !.pc = "L57"]]
    [] l.pc = "L57" ->
         [c |-> c,
          l |-> [l EXCEPT !.delta_p = fsub(l.p_measured, c.p_prev),
                          !.pc = "L60"]]
    [] l.pc = "L60" ->
         [c |-> [c EXCEPT !.v_ref = Perturb(@, PO(l.delta_p, l.delta_v),
                                            c.step_size)],
          l |-> [l EXCEPT !.action = PO(l.delta_p, l.delta_v),
                          !.pc = "L76"]]
    [] l.pc = "L76" ->
         [c |-> [c EXCEPT !.v_ref = clip(@, c.min_voltage, c.max_voltage)],
          l |-> [l EXCEPT !.pc = "L79"]]
    [] l.pc = "L79" ->
         [c |-> [c EXCEPT !.v_prev = l.v_measured],
          l |-> [l EXCEPT !.pc = "L80"]]
    [] l.pc = "L80" ->
         [c |-> [c EXCEPT !.p_prev = l.p_measured],
          l |-> [l EXCEPT !.pc = "L81"]]
    [] l.pc = "L81" ->
         [c |-> [c EXCEPT !.history = AppendAction(@, l.action)],
          l |-> [l EXCEPT !.pc = "L83"]]
    [] l.pc = "L83" ->
         [c |-> c, l |-> [l EXCEPT !.ret = c.v_ref, !.pc = "done"]]

\* The object o is the state of the controller after the step.
Becomes(o) ==
  /\ step_size' = o.step_size
  /\ max_voltage' = o.max_voltage
  /\ min_voltage' = o.min_voltage
  /\ sample_time' = o.sample_time
  /\ v_prev' = o.v_prev
  /\ p_prev' = o.p_prev
  /\ v_ref' = o.v_ref
  /\ history' = o.history

\* MPPT_PO.__init__ with a configuration that meets its documented
\* precondition; no thread runs yet.
InitConc ==
  /\ Init
  /\ step_size > 0
  /\ min_voltage < max_voltage
  /\ sample_time > 0

\* A sequential update call made before the threads start.
warmup ==
  /\ thr = <<>>
  /\ Len(returns) < MaxWarmup
  /\ \E a \in ThreadSamples : update(a[1], a[2])
  /\ UNCHANGED <<twin, thr, sim>>

\* Both threads enter update, each with its own measurements; base is the
\* controller at that moment.
spawn ==
  /\ thr = <<>>
  /\ \E a1 \in ThreadSamples, a2 \in ThreadSamples :
       thr' = [base |-> self, overlap |-> FALSE,
               loc |-> [t \in Threads |->
                          IF t = 1 THEN locals(a1[1], a1[2])
                                   ELSE locals(a2[1], a2[2])]]
  /\ UNCHANGED <<step_size, max_voltage, min_voltage, sample_time,
                 v_prev, p_prev, v_ref, history, args, returns, twin, sim>>

\* Thread t executes its next statement.  overlap records that a statement
\* ran while the other thread was inside its call.
thread_step(t) ==
  /\ thr # <<>>
  /\ thr.loc[t].pc # "done"
  /\ LET e == exec(self, thr.loc[t])
         o == CHOOSE u \in Threads : u # t
     IN  /\ Becomes(e.c)
         /\ thr' = [thr EXCEPT
                      !.loc[t] = e.l,
                      !.overlap = @ \/ thr.loc[o].pc \notin {"L44", "done"}]
         /\ IF e.l.pc = "done"
              THEN /\ returns' = Append(returns, e.l.ret)
                   /\ args' = Append(args, <<e.l.v_measured, e.l.i_measured>>)
              ELSE UNCHANGED <<args, returns>>
  /\ UNCHANGED <<twin, sim>>

NextConc == warmup \/ spawn \/ \E t \in Threads : thread_step(t)

SpecConc == InitConc /\ [][NextConc]_vars

----------------------------------------------------------------------------
\* simulate_real_time(mppt, duration): the closed loop of the controller and
\* a virtual PV panel.

\* Number of periods of a simulation, int(duration / sample_time).
SimPeriods == 8

\* Controllers handed to simulate_real_time.  In the second one max_voltage
\* is not min_voltage plus a whole number of steps.
SimConfigs ==
  { [step_size |-> 1, max_voltage |-> 24, min_voltage |-> 20, sample_time |-> 2],
    [step_size |-> 2, max_voltage |-> 25, min_voltage |-> 20, sample_time |-> 2] }

\* The voltages min_voltage + k * step_size up to max_voltage.
Grid(c) ==
  { v \in c.min_voltage..c.max_voltage :
      (v - c.min_voltage) % c.step_size = 0 }

CurrentLevels == {1, 2, 3}

\* np.random.normal(0, 0.05), or no noise at all.
Noise(noisy) == IF noisy THEN {-1, 1} ELSE {0}

\* f is a panel current whose power v * f[v] has a single peak, as that of
\* _simulate_pv, at a grid voltage strictly between the limits.
SinglePeak(f, c) ==
  \E pk \in Grid(c) :
    /\ c.min_voltage < pk /\ pk < c.max_voltage
    /\ \A v \in c.min_voltage..(c.max_voltage - 1) :
         IF v < pk THEN v * f[v] < (v + 1) * f[v + 1]
                   ELSE v * f[v] > (v + 1) * f[v + 1]

\* The panels simulated: mppt._simulate_pv as a function of the voltage.
Curves(c) ==
  { f \in [c.min_voltage..c.max_voltage -> CurrentLevels] : SinglePeak(f, c) }

\* range(int(duration / mppt.sample_time))
periods(duration, st) == duration \div st

\* A converter that never takes the new reference.
apply_reference_Stale(s) ==
  [s EXCEPT !.step = @ + 1, !.pc = "measure"]

\* v_operating = v_ref, and the end of the period.
apply_reference(s) ==
  [s EXCEPT !.v_operating = s.v_ref, !.step = @ + 1, !.pc = "measure"]

\* mppt = MPPT_PO(...); simulate_real_time(mppt, duration) up to the
\* initialisation v_operating = mppt.min_voltage; modes tells whether the
\* measurement noise is present.
InitSimulation(modes) ==
  /\ \E c \in SimConfigs : \E f \in Curves(c), noisy \in modes :
       /\ Holds(construct(c))
       /\ twin = [self |-> construct(c), returns |-> <<>>]
       /\ sim = [pc |-> "measure", step |-> 0,
                 v_operating |-> c.min_voltage, i |-> 0, v_ref |-> 0,
                 pv |-> f, noisy |-> noisy,
                 duration |-> SimPeriods * c.sample_time]
  /\ args = <<>>
  /\ returns = <<>>
  /\ thr = <<>>

\* i = mppt._simulate_pv(v_operating) + np.random.normal(0, 0.05)
sim_measure ==
  /\ sim # <<>>
  /\ sim.pc = "measure"
  /\ sim.step < periods(sim.duration, sample_time)
  /\ \E n \in Noise(sim.noisy) :
       sim' = [sim EXCEPT !.i = sim.pv[sim.v_operating] + n,
                          !.pc = "update"]
  /\ UNCHANGED <<step_size, max_voltage, min_voltage, sample_time,
                 v_prev, p_prev, v_ref, history, args, returns, twin, thr>>

\* v_ref = mppt.update(v_operating, i)
sim_update ==
  /\ sim # <<>>
  /\ sim.pc = "update"
  /\ update(sim.v_operating, sim.i)
  /\ sim' = [sim EXCEPT
               !.v_ref = updated(self, sim.v_operating, sim.i).ret,
               !.pc = "apply"]
  /\ UNCHANGED <<twin, thr>>

\* v_operating = v_ref; the progress print and the sleep change nothing.
sim_apply ==
  /\ sim # <<>>
  /\ sim.pc = "apply"
  /\ sim' = apply_reference(sim)
  /\ UNCHANGED <<step_size, max_voltage, min_voltage, sample_time,
                 v_prev, p_prev, v_ref, history, args, returns, twin, thr>>

\* The loop is over: "Simulation terminee" and plot_history.
sim_finish ==
  /\ sim # <<>>
  /\ sim.pc = "measure"
  /\ sim.step >= periods(sim.duration, sample_time)
  /\ sim' = [sim EXCEPT !.pc = "done"]
  /\ UNCHANGED <<step_size, max_voltage, min_voltage, sample_time,
                 v_prev, p_prev, v_ref, history, args, returns, twin, thr>>

NextSim == sim_measure \/ sim_update \/ sim_apply \/ sim_finish

\* The simulation without measurement noise.
InitSim == InitSimulation({FALSE})

\* The simulation with or without measurement noise.
InitSimNoisy == InitSimulation({FALSE, TRUE})

\* The loop of simulate_real_time runs to its end.
SpecSim == InitSim /\ [][NextSim]_vars /\ WF_vars(NextSim)

SpecSimNoisy == InitSimNoisy /\ [][NextSim]_vars /\ WF_vars(NextSim)

----------------------------------------------------------------------------
\* The constructor's documented precondition on the configuration.
ValidBounds == step_size > 0 /\ min_voltage < max_voltage
ValidConfig == ValidBounds /\ sample_time > 0

InBounds(x) == min_voltage <= x /\ x <= max_voltage

\* Saturation into [min_voltage, max_voltage], stated case by case.
Saturate(x) ==
  IF x < min_voltage THEN min_voltage
  ELSE IF x > max_voltage THEN max_voltage ELSE x

\* Number of completed update calls.
NCalls == Len(returns)

\* The step is one completed update call.
IsCall == Len(returns') = Len(returns) + 1

----------------------------------------------------------------------------
\* C1: for every configuration with step_size > 0 and min_voltage <
\* max_voltage, in every state reachable from construction by update calls,
\* min_voltage <= reference_voltage <= max_voltage, and every value returned
\* by update lies in that interval.
C1_ReferenceWithinBounds ==
  ValidBounds =>
    /\ InBounds(v_ref)
    /\ \A k \in 1..Len(returns) : InBounds(returns[k])

\* A valid configuration whose step is larger than the whole interval, after
\* an "increase" that the clamp had to cut at max_voltage.
C1_Witness ==
  /\ ValidBounds
  /\ step_size > max_voltage - min_voltage
  /\ NCalls >= 2
  /\ history.action[NCalls] = "increase"
  /\ returns[NCalls] = max_voltage

\* C2: the first update call after construction returns exactly
\* min_voltage, leaves reference_voltage equal to min_voltage and records
\* "init" as the first action of the history, whatever was measured.
C2_FirstCallInit ==
  NCalls >= 1 =>
    /\ returns[1] = min_voltage
    /\ Len(history.action) >= 1
    /\ history.action[1] = "init"
    /\ (NCalls = 1 => v_ref = min_voltage)

\* Exactly one call was made, with a non-zero measured power.
C2_Witness ==
  /\ NCalls = 1
  /\ args[1][1] * args[1][2] # 0
  /\ returns = <<min_voltage>>

\* The configuration step_size=0.5, min_voltage=10, max_voltage=45.
ScenarioConfig == step_size = 1 /\ min_voltage = 20 /\ max_voltage = 90

\* C3: with step_size=0.5, min_voltage=10, max_voltage=45, the calls
\* update(10, 0), update(11, 0.4), update(10.5, 0.5) return 10, 10.5, 10.0
\* and record "init", "increase", "decrease" in that order.
C3_Scenario ==
  (ScenarioConfig /\ args = << <<20, 0>>, <<22, 4>>, <<21, 5>> >>) =>
    /\ returns = <<20, 21, 20>>
    /\ history.action = <<"init", "increase", "decrease">>

\* C4: the controller leaves UNINITIALIZED on the first update call and
\* never goes back: the first call records "init" and every later call
\* records "increase" or "decrease", whatever the measured values.
C4_OneWayTransition ==
  ValidConfig =>
  \A k \in 1..Len(history.action) :
      IF k = 1 THEN history.action[k] = "init"
               ELSE history.action[k] \in {"increase", "decrease"}

\* C5: every update call that takes the steady-state branch (previous_power
\* is not the sentinel) moves the reference to clamp(old + step_size) and
\* records "increase" when (delta_power > 0 and delta_voltage > 0) or
\* (delta_power <= 0 and delta_voltage <= 0), and to clamp(old - step_size)
\* with "decrease" when (delta_power > 0 and delta_voltage <= 0) or
\* (delta_power <= 0 and delta_voltage > 0); zero deltas count as '<= 0'.
\* The clamp is the saturation into [min_voltage, max_voltage], which is
\* defined when min_voltage <= max_voltage.
C5_DecisionTable ==
  [][ (IsCall /\ p_prev # 0 /\ min_voltage <= max_voltage) =>
        LET n  == Len(returns')
            dv == args'[n][1] - v_prev
            dp == args'[n][1] * args'[n][2] - p_prev
            up   == (dp > 0 /\ dv > 0) \/ (dp <= 0 /\ dv <= 0)
            down == (dp > 0 /\ dv <= 0) \/ (dp <= 0 /\ dv > 0)
        IN  /\ up \/ down
            /\ up => /\ history'.action[n] = "increase"
                     /\ v_ref' = Saturate(v_ref + step_size)
                     /\ returns'[n] = v_ref'
            /\ down => /\ history'.action[n] = "decrease"
                       /\ v_ref' = Saturate(v_ref - step_size)
                       /\ returns'[n] = v_ref'
    ]_vars

\* A steady-state call whose sample equals the previous one (both deltas
\* zero) and which recorded "increase".
C5_Witness ==
  /\ min_voltage < max_voltage
  /\ NCalls >= 2
  /\ history.p[NCalls - 1] # 0
  /\ args[NCalls] = args[NCalls - 1]
  /\ history.action[NCalls] = "increase"

\* C6: clamping saturates at the bounds (valid configuration): when the
\* reference equals max_voltage and the call's decision is "increase" it is
\* still exactly max_voltage after the call, and when it equals min_voltage
\* and the decision is "decrease" it is still exactly min_voltage; it never
\* wraps to the opposite bound.  Holding for every such step, it holds for
\* any number of consecutive outward-pushing calls.
C6_ClampSaturates ==
  [][ (IsCall /\ ValidBounds) =>
        LET n == Len(returns')
        IN  /\ (v_ref = max_voltage /\ history'.action[n] = "increase") =>
                  (v_ref' = max_voltage /\ returns'[n] = max_voltage
                                        /\ v_ref' # min_voltage)
            /\ (v_ref = min_voltage /\ history'.action[n] = "decrease") =>
                  (v_ref' = min_voltage /\ returns'[n] = min_voltage
                                        /\ v_ref' # max_voltage)
    ]_vars

\* A "decrease" decided at min_voltage, then two consecutive "increase"
\* decisions of which the second one is decided at max_voltage.
C6_Witness ==
  /\ ValidBounds
  /\ NCalls >= 4
  /\ history.action[NCalls - 2] = "decrease"
  /\ returns[NCalls - 3] = min_voltage
  /\ returns[NCalls - 2] = min_voltage
  /\ history.action[NCalls - 1] = "increase"
  /\ returns[NCalls - 1] = max_voltage
  /\ history.action[NCalls] = "increase"
  /\ returns[NCalls] = max_voltage

\* C7 as stated: from a state where reference_voltage equals max_voltage,
\* every update call whose measured power is lower than the preceding
\* call's measured power leaves reference_voltage exactly max_voltage.
C7_DecreasingPowerStaysAtMax ==
  [][ (IsCall /\ ValidConfig /\ v_ref = max_voltage /\ NCalls >= 1
         /\ args'[NCalls + 1][1] * args'[NCalls + 1][2] < history.p[NCalls])
        => v_ref' = max_voltage
    ]_vars

\* C7 amended: for a valid configuration, from a state where
\* reference_voltage equals max_voltage, every update call whose measured
\* power is lower than the preceding call's measured power and whose
\* measured voltage is not higher than the preceding call's measured
\* voltage leaves reference_voltage exactly max_voltage.
C7_DecreasingPowerNoVoltageRise ==
  [][ (IsCall /\ ValidBounds /\ v_ref = max_voltage /\ NCalls >= 1
         /\ args'[NCalls + 1][1] * args'[NCalls + 1][2] < history.p[NCalls]
         /\ args'[NCalls + 1][1] <= history.v[NCalls])
        => (v_ref' = max_voltage /\ returns'[NCalls + 1] = max_voltage)
    ]_vars

\* The reference reached max_voltage and a later steady-state call with a
\* lower power and a non-rising voltage was made from there.
C7_Witness ==
  /\ ValidBounds
  /\ NCalls >= 3
  /\ returns[NCalls - 1] = max_voltage
  /\ history.p[NCalls - 1] # 0
  /\ history.p[NCalls] < history.p[NCalls - 1]
  /\ history.v[NCalls] <= history.v[NCalls - 1]
  /\ history.action[NCalls] = "increase"
  /\ v_ref = max_voltage

\* C8: after n completed update calls (n >= 0) the four history sequences
\* v, i, p and action all have length exactly n, on both branches.
C8_HistoryLengths ==
  /\ Len(history.v) = NCalls
  /\ Len(history.i) = NCalls
  /\ Len(history.p) = NCalls
  /\ Len(history.action) = NCalls

\* Three calls, taking the first-sample branch and then the steady-state
\* branch.
C8_Witness ==
  /\ NCalls = 3
  /\ Len(history.i) = 3
  /\ history.action[2] = "init"
  /\ history.action[3] # "init"

\* C9: the history is an append-only log in call order: after the k-th
\* update call, entry k of v, i and p is that call's measured voltage,
\* measured current and their product, entry k of action is one of "init",
\* "increase", "decrease", and the call changes, reorders or removes no
\* entry recorded by an earlier call.
C9_AppendOnlyLog ==
  [][ IsCall =>
        LET n == Len(returns')
        IN  /\ Len(history'.v) >= n /\ history'.v[n] = args'[n][1]
            /\ Len(history'.i) >= n /\ history'.i[n] = args'[n][2]
            /\ Len(history'.p) >= n
            /\ history'.p[n] = args'[n][1] * args'[n][2]
            /\ Len(history'.action) >= n /\ history'.action[n] \in Actions
            /\ \A k \in 1..Len(history.v) : history'.v[k] = history.v[k]
            /\ \A k \in 1..Len(history.i) : history'.i[k] = history.i[k]
            /\ \A k \in 1..Len(history.p) : history'.p[k] = history.p[k]
            /\ \A k \in 1..Len(history.action) :
                  history'.action[k] = history.action[k]
    ]_vars

\* Three calls with three different samples, all in the log in call order.
C9_Witness ==
  /\ NCalls = 3
  /\ args[1] # args[2] /\ args[2] # args[3] /\ args[1] # args[3]
  /\ \A k \in 1..3 : /\ history.v[k] = args[k][1]
                      /\ history.i[k] = args[k][2]
                      /\ history.p[k] = args[k][1] * args[k][2]
  /\ history.action[3] # "init"

\* C10: construction with an invalid configuration (min_voltage >=
\* max_voltage, step_size <= 0 or sample_time <= 0) is rejected, so no
\* controller on which update can be called has such a configuration.
C10_InvalidConfigRejected ==
  NCalls >= 1 => ValidConfig

\* C11: update never reads the history back: two controllers with the same
\* configuration, previous_voltage, previous_power and reference_voltage but
\* different history contents, given the same (voltage, current), return the
\* same value, record the same action and end with the same
\* previous_voltage, previous_power and reference_voltage.
C11_HistoryNotReadBack ==
  [][ (IsCall
        /\ twin.self.history # history
        /\ twin.self.step_size = step_size
        /\ twin.self.max_voltage = max_voltage
        /\ twin.self.min_voltage = min_voltage
        /\ twin.self.sample_time = sample_time
        /\ twin.self.v_prev = v_prev
        /\ twin.self.p_prev = p_prev
        /\ twin.self.v_ref = v_ref) =>
        LET n == Len(returns')
            m == Len(twin'.returns)
            a == twin'.self.history.action
        IN  /\ m >= 1 /\ twin'.returns[m] = returns'[n]
            /\ Len(a) >= 1 /\ a[Len(a)] = history'.action[n]
            /\ twin'.self.v_prev = v_prev'
            /\ twin'.self.p_prev = p_prev'
            /\ twin'.self.v_ref = v_ref'
    ]_vars

\* Both controllers went through the first-sample and the steady-state
\* branch and moved their reference, with different histories throughout.
C11_Witness ==
  /\ NCalls >= 3
  /\ twin.self.history # history
  /\ Len(twin.self.history.action) > NCalls
  /\ history.action[NCalls] # "init"
  /\ v_ref # min_voltage
  /\ twin.self.v_ref = v_ref
  /\ twin.returns = returns

\* C12: the configuration is immutable after construction: no update call,
\* on either branch, changes step_size, min_voltage, max_voltage or
\* sample_time.
C12_ConfigImmutable ==
  [][ IsCall =>
        /\ step_size' = step_size
        /\ min_voltage' = min_voltage
        /\ max_voltage' = max_voltage
        /\ sample_time' = sample_time
    ]_vars

\* The first-sample and then the steady-state branch ran and moved the
\* reference, and the configuration is still one of the constructor's.
C12_Witness ==
  /\ NCalls >= 2
  /\ history.action[NCalls] # "init"
  /\ v_ref # min_voltage
  /\ v_ref # max_voltage
  /\ [step_size |-> step_size, max_voltage |-> max_voltage,
      min_voltage |-> min_voltage, sample_time |-> sample_time] \in Configs

\* C13: an update call given an anomalous measurement (negative current,
\* nan or inf voltage or current) completes and returns a reference within
\* [min_voltage, max_voltage], and so do all update calls after it.
C13_AnomaliesStayBounded ==
  /\ InBounds(v_ref)
  /\ Len(returns) = Len(args)
  /\ \A k \in 1..Len(returns) : InBounds(returns[k])

\* A nan measurement, later an infinite one, then a call that decided
\* "decrease".
C13_Witness ==
  /\ NCalls >= 3
  /\ \E j \in 1..NCalls, k \in 1..NCalls :
       /\ j < k /\ k < NCalls
       /\ (IsNaN(args[j][1]) \/ IsNaN(args[j][2]))
       /\ (IsInf(args[k][1]) \/ IsInf(args[k][2]))
  /\ history.action[NCalls] = "decrease"
  /\ InBounds(returns[NCalls])

\* C15: whenever update is called while previous_power equals 0 it takes
\* the first-sample branch: it stores the sample in previous_voltage and
\* previous_power, records "init" and returns reference_voltage unchanged;
\* so, from construction, as long as every sample so far had power exactly
\* zero, every call recorded "init" and returned min_voltage.
C15_SentinelTakesFirstSampleBranch ==
  [][ IsCall =>
        LET n == Len(returns')
        IN  /\ p_prev = 0 =>
                  /\ v_prev' = args'[n][1]
                  /\ p_prev' = args'[n][1] * args'[n][2]
                  /\ history'.action[n] = "init"
                  /\ returns'[n] = v_ref
                  /\ v_ref' = v_ref
            /\ (\A k \in 1..(n - 1) : args'[k][1] * args'[k][2] = 0) =>
                  /\ \A k \in 1..n : history'.action[k] = "init"
                  /\ \A k \in 1..n : returns'[k] = min_voltage
    ]_vars

\* After a steady-state call that moved the reference, a zero-power sample
\* sent the next call through the first-sample branch again.
C15_Witness ==
  /\ NCalls >= 4
  /\ history.action[NCalls - 2] # "init"
  /\ history.p[NCalls - 1] = 0
  /\ history.action[NCalls] = "init"
  /\ returns[NCalls] = returns[NCalls - 1]
  /\ returns[NCalls] # min_voltage

\* C16: after every update call, on both branches, previous_voltage is that
\* call's measured voltage and previous_power is its measured voltage times
\* its measured current.
C16_PreviousIsLastSample ==
  NCalls >= 1 =>
    /\ v_prev = args[NCalls][1]
    /\ p_prev = args[NCalls][1] * args[NCalls][2]

\* A steady-state call followed by a first-sample call with another
\* voltage.
C16_Witness ==
  /\ NCalls >= 3
  /\ history.action[NCalls - 1] # "init"
  /\ history.action[NCalls] = "init"
  /\ args[NCalls][1] # args[NCalls - 1][1]
  /\ v_prev = args[NCalls][1]

\* C18: for a valid configuration every update call changes
\* reference_voltage by at most step_size; a steady-state call changes it by
\* exactly step_size unless the clamp cut the move at min_voltage or
\* max_voltage; "increase" never lowers it and "decrease" never raises it.
C18_BoundedPerturbation ==
  [][ (IsCall /\ ValidBounds) =>
        LET n == Len(returns')
            d == v_ref' - v_ref
        IN  /\ d <= step_size /\ -d <= step_size
            /\ history'.action[n] = "init" => d = 0
            /\ history'.action[n] = "increase" =>
                  /\ d >= 0
                  /\ d = step_size \/ v_ref' = max_voltage
            /\ history'.action[n] = "decrease" =>
                  /\ d <= 0
                  /\ -d = step_size \/ v_ref' = min_voltage
    ]_vars

\* An "increase" and then a "decrease" that both moved the reference, each
\* by less than step_size because the clamp cut the move at the bound.
C18_Witness ==
  /\ ValidBounds
  /\ NCalls >= 3
  /\ history.action[NCalls - 1] = "increase"
  /\ returns[NCalls - 1] = max_voltage
  /\ returns[NCalls - 1] > returns[NCalls - 2]
  /\ returns[NCalls - 1] - returns[NCalls - 2] < step_size
  /\ history.action[NCalls] = "decrease"
  /\ returns[NCalls] = min_voltage
  /\ returns[NCalls - 1] - returns[NCalls] < step_size

\* Both thread calls have returned.
BothDone == thr # <<>> /\ \A t \in Threads : thr.loc[t].pc = "done"

\* The controller after the two thread calls made one after the other, in
\* the order first, second, from the controller the threads started on.
InOrder(first, second) ==
  LET a == thr.loc[first]
      b == thr.loc[second]
  IN  updated(updated(thr.base, a.v_measured, a.i_measured).self,
              b.v_measured, b.i_measured).self

\* The final state is the one of a sequential order of the two calls.
Serializable == self = InOrder(1, 2) \/ self = InOrder(2, 1)

\* C14: update is not safe under concurrent calls: with the statements of
\* two calls interleaved and no lock there is an interleaving whose final
\* state is the final state of neither sequential order of the two calls
\* (C14_Witness is such a final state); a final state that matches no
\* sequential order arises only when statements of the two calls
\* interleaved, never when the calls ran one after the other.
C14_UnsafeOnlyWhenInterleaved ==
  (BothDone /\ ~Serializable) => thr.overlap

\* A final state of two interleaved calls that is the final state of neither
\* sequential order and whose history has an index k with p[k] # v[k]*i[k].
C14_Witness ==
  /\ BothDone
  /\ thr.overlap
  /\ ~Serializable
  /\ Len(history.v) = Len(history.i) /\ Len(history.v) = Len(history.p)
  /\ \E k \in 1..Len(history.v) :
       history.p[k] # history.v[k] * history.i[k]

\* The grid min_voltage + k * step_size of the controller.
SimGrid ==
  { v \in min_voltage..max_voltage : (v - min_voltage) % step_size = 0 }

\* The power the simulated panel delivers at voltage v.
SimPower(v) == v * sim.pv[v]

\* pk is the single peak of the power on the grid: the power is strictly
\* positive, strictly increasing up to pk and strictly decreasing after it.
IsGridPeak(pk) ==
  /\ pk \in SimGrid
  /\ \A v \in SimGrid :
       /\ SimPower(v) > 0
       /\ (v + step_size) \in SimGrid =>
            IF v < pk THEN SimPower(v) < SimPower(v + step_size)
                      ELSE SimPower(v) > SimPower(v + step_size)

\* The hypotheses of C17: no measurement noise, step_size > 0, and a single
\* power peak on the grid strictly between min_voltage and max_voltage.
NoiselessSinglePeak ==
  /\ ~sim.noisy
  /\ step_size > 0
  /\ \E pk \in SimGrid :
       IsGridPeak(pk) /\ min_voltage < pk /\ pk < max_voltage

PeakVoltage == CHOOSE pk \in SimGrid : IsGridPeak(pk)

\* reference_voltage is within one step_size of the peak voltage.
NearPeak ==
  /\ v_ref - PeakVoltage <= step_size
  /\ PeakVoltage - v_ref <= step_size

\* C17 as stated: in the noiseless closed loop with a single power peak on
\* the grid strictly between min_voltage and max_voltage, reference_voltage
\* eventually comes within one step_size of the peak voltage and from then
\* on stays within one step_size of it.
C17_ConvergesToPeak ==
  /\ [][ (NoiselessSinglePeak /\ NearPeak) => NearPeak' ]_vars
  /\ <>[](NoiselessSinglePeak => NearPeak)

\* C17 amended: the same, for a peak voltage that lies at least one
\* step_size below max_voltage (peak + step_size <= max_voltage).
C17_ConvergesToPeakBelowMax ==
  /\ [][ (NoiselessSinglePeak /\ PeakVoltage + step_size <= max_voltage
            /\ NearPeak) => NearPeak' ]_vars
  /\ <>[]((NoiselessSinglePeak /\ PeakVoltage + step_size <= max_voltage)
            => NearPeak)

\* A finished noiseless simulation whose peak was more than one step away
\* from the start and whose reference went from one step above the peak to
\* one step below it and back above.
C17_Witness ==
  /\ sim.pc = "done"
  /\ NoiselessSinglePeak
  /\ PeakVoltage + step_size <= max_voltage
  /\ PeakVoltage - min_voltage > step_size
  /\ NearPeak
  /\ \E j \in 1..NCalls, k \in 1..NCalls, l \in 1..NCalls :
       /\ j < k /\ k < l
       /\ returns[j] = PeakVoltage + step_size
       /\ returns[k] = PeakVoltage - step_size
       /\ returns[l] = PeakVoltage + step_size

\* C19: in simulate_real_time each period measures, updates and applies in
\* that order: update is called exactly once per period, the voltage passed
\* to the n-th update is the reference returned by the (n-1)-th update
\* (min_voltage for the first), and so every measured voltage given to the
\* controller lies within [min_voltage, max_voltage].
C19_LoopFeedsBackReference ==
  /\ sim.pc \in {"measure", "update", "done"} => NCalls = sim.step
  /\ sim.pc = "apply" => NCalls = sim.step + 1
  /\ sim.pc = "done" => NCalls = periods(sim.duration, sample_time)
  /\ \A n \in 1..NCalls :
       /\ args[n][1] = IF n = 1 THEN min_voltage ELSE returns[n - 1]
       /\ InBounds(args[n][1])

\* A finished noisy simulation in which the measured voltage followed the
\* reference away from min_voltage.
C19_Witness ==
  /\ sim.pc = "done"
  /\ sim.noisy
  /\ NCalls = SimPeriods
  /\ \E n \in 2..NCalls : args[n][1] # min_voltage /\ args[n][1] = returns[n - 1]
  /\ sim.v_operating = returns[NCalls]

====
